---- MODULE Spec2Model ----
(***************************************************************************)
(* Model of gdsfactory/technology/layer_stack.py: the LayerStack, its etch *)
(* resolution, get_component_with_derived_layers and                       *)
(* LayerStack.get_klayout_3d_script.                                       *)
(*                                                                         *)
(* A LayerStack is the ordered dict `layers` (name -> LayerLevel); it is   *)
(* modelled as a sequence of LayerLevel records in dict order, each        *)
(* carrying its key in the field `name`.  A physical layer id is a         *)
(* positive integer, None is NoLayer.  A polygon is a unit cell, a list of *)
(* polygons or a Region is a set of cells, the shapes of a component are a *)
(* count of polygons per layer id and cell.  z values are fixed-point      *)
(* integers with Prec decimal digits.                                      *)
(*                                                                         *)
(* SpecLevels covers the get_layer_to_* maps, z_offset and invert_zaxis:   *)
(* there zmin and dz are floats of MantBits bits of mantissa, written in   *)
(* units of the smallest step, and a LayerLevel object may be held under   *)
(* several names.  calls is the history of the z_offset and invert_zaxis   *)
(* calls made, layer_to the maps the get_layer_to_* calls returned and the  *)
(* stack they were made on.                                                *)
(***************************************************************************)
EXTENDS Integers, Sequences, FiniteSets, TLC

VARIABLES layers, component, dbu, component_derived, script, calls, layer_to

vars == <<layers, component, dbu, component_derived, script, calls, layer_to>>

----------------------------------------------------------------------------
(* Bounds of the model *)

MaxLevels == 3
MaxInto == 2
NumLayerIds == 3
NumCells == 1
Prec == 4

----------------------------------------------------------------------------
(* LayerLevel and LayerStack *)

NoLayer == 0

LayerIds == 1..NumLayerIds

Cells == 1..NumCells

AllNames == <<"a", "b", "c", "d", "e", "f">>

NameOf(i) == AllNames[i]

Dangling == "missing"

LayerTypes == {"grow", "etch", "implant"}

Truthy(layer) == layer # NoLayer

StackNames(ls) == {ls[i].name : i \in 1..Len(ls)}

IndexOf(ls, key) == CHOOSE i \in 1..Len(ls) : ls[i].name = key

Get(ls, key) == ls[IndexOf(ls, key)]

InSeq(seq, x) == \E i \in 1..Len(seq) : seq[i] = x

BoundedSeq(S, n) == UNION {[1..m -> S] : m \in 0..n}

(* list.remove(x): drops the first occurrence of x *)
RemoveFirst(seq, x) ==
    LET i == CHOOSE j \in 1..Len(seq) :
                 seq[j] = x /\ \A k \in 1..(j - 1) : seq[k] # x
    IN  SubSeq(seq, 1, i - 1) \o SubSeq(seq, i + 1, Len(seq))

(* defaultdict(list), in insertion order of its keys: a sequence of entries *)
HasKey(d, k) == \E i \in 1..Len(d) : d[i].key = k

DictGet(d, k) == d[CHOOSE i \in 1..Len(d) : d[i].key = k].val

DictKeys(d) == [i \in 1..Len(d) |-> d[i].key]

(* seeded fault: a later etch layer replaces the list of its target *)
DictAppend_overwrite(d, k, v) ==
    IF HasKey(d, k)
    THEN [i \in 1..Len(d) |-> IF d[i].key = k THEN [key |-> k, val |-> <<v>>] ELSE d[i]]
    ELSE Append(d, [key |-> k, val |-> <<v>>])

DictAppend(d, k, v) ==
    IF HasKey(d, k)
    THEN [i \in 1..Len(d) |->
            IF d[i].key = k THEN [key |-> k, val |-> Append(d[i].val, v)] ELSE d[i]]
    ELSE Append(d, [key |-> k, val |-> <<v>>])

----------------------------------------------------------------------------
(* Etch resolution: the same statements open get_component_with_derived_layers
   and get_klayout_3d_script *)

NamesOf(ls) == [i \in 1..Len(ls) |-> ls[i].name]

(* seeded fault: every level with a layer id that is no etch counts as grown *)
grown_layers_any_type(ls) ==
    NamesOf(SelectSeq(ls, LAMBDA level : Truthy(level.layer) /\ level.layer_type # "etch"))

grown_layers(ls) ==
    NamesOf(SelectSeq(ls, LAMBDA level : Truthy(level.layer) /\ level.layer_type = "grow"))

(* seeded fault: the etch levels without a layer id count as etch layers *)
etch_layers_any_id(ls) ==
    NamesOf(SelectSeq(ls, LAMBDA level : level.layer_type = "etch"))

etch_layers(ls) ==
    NamesOf(SelectSeq(ls, LAMBDA level : Truthy(level.layer) /\ level.layer_type = "etch"))

RECURSIVE etch_into(_, _, _, _)
etch_into(into, k, layer_name, st) ==
    IF k > Len(into) THEN st
    ELSE LET layer_name_etched == into[k]
             d == DictAppend(st.unetched_layers_dict, layer_name_etched, layer_name)
             u == IF InSeq(st.unetched_layers, layer_name_etched)
                  THEN RemoveFirst(st.unetched_layers, layer_name_etched)
                  ELSE st.unetched_layers
         IN  etch_into(into, k + 1, layer_name,
                       [unetched_layers |-> u, unetched_layers_dict |-> d])

RECURSIVE remove_etched(_, _, _, _)
remove_etched(ls, etching, k, st) ==
    IF k > Len(etching) THEN st
    ELSE LET layer_name == etching[k]
             level == Get(ls, layer_name)
         IN  remove_etched(ls, etching, k + 1, etch_into(level.into, 1, layer_name, st))

remove_etched_layers(ls) ==
    remove_etched(ls, etch_layers(ls), 1,
                  [unetched_layers |-> grown_layers(ls), unetched_layers_dict |-> <<>>])

----------------------------------------------------------------------------
(* The component and the geometry collaborators *)

Ports == {"o1", "o2"}

Regions == SUBSET Cells

EmptyShapes == [l \in LayerIds |-> [c \in Cells |-> 0]]

(* Component.get_polygons(): the polygons-per-layer snapshot *)
get_polygons(comp) == comp.polygons

(* the region of a layer id in the snapshot; an id without an entry is empty *)
polygons_at(polygons_per_layer, layer) ==
    IF layer \in DOMAIN polygons_per_layer THEN polygons_per_layer[layer] ELSE {}

(* gdsfactory.pdk.get_layer: level.layer is already the id the snapshot uses *)
get_layer(layer) == layer

(* boolean_operations["and"], boolean_operations["not"] and Region | Region *)
boolean_and(r1, r2) == r1 \cap r2

boolean_not(r1, r2) == r1 \ r2

boolean_or(r1, r2) == r1 \cup r2

(* Component.extract(layers): a new component holding the polygons of `layers` *)
extract(comp, layer_numbers) ==
    [status |-> "ok",
     shapes |-> [l \in LayerIds |-> [c \in Cells |->
                    IF InSeq(layer_numbers, l) /\ c \in polygons_at(comp.polygons, l)
                    THEN 1 ELSE 0]],
     log    |-> <<>>]

(* component_derived.shapes(layer_index).insert(r); shapes(None) raises *)
shapes_insert(cd, op, target, etch, layer_index, r) ==
    IF cd.status # "ok" THEN cd
    ELSE IF layer_index = NoLayer THEN [cd EXCEPT !.status = "TypeError"]
    ELSE [cd EXCEPT
            !.shapes[layer_index] = [c \in Cells |-> @[c] + (IF c \in r THEN 1 ELSE 0)],
            !.log = Append(@, [op |-> op, target |-> target, etch |-> etch,
                               layer |-> layer_index, region |-> r])]

(* for polygon in polygons: component_derived.shapes(layer_index).insert(polygon) *)
insert_polygons(cd, target, layer_index, polygons) ==
    IF polygons = {} THEN cd
    ELSE shapes_insert(cd, "polygon", target, "", layer_index, polygons)

----------------------------------------------------------------------------
(* get_component_with_derived_layers *)

unetched_layer_numbers(ls, unetched, component_layers) ==
    LET kept == SelectSeq(unetched, LAMBDA layer_name :
                    Get(ls, layer_name).layer \in component_layers)
    IN  [i \in 1..Len(kept) |-> Get(ls, kept[i]).layer]

(* seeded fault: a slab for every etching layer *)
has_derived_layer_always(level) == TRUE

(* lines 437-438: derived_layer = ...; if derived_layer *)
has_derived_layer(level) == Truthy(level.derived_layer)

(* seeded fault: the snapshot is read without the test, and the lookup raises *)
skip_etching_layer_raises(acc) == [acc EXCEPT !.cd.status = "KeyError"]

(* line 431: an etching layer without an entry in the snapshot is passed over *)
skip_etching_layer(acc) == acc

(* seeded fault: the unknown name ends the loop silently *)
raise_key_error_swallowed(cd) == cd

(* line 421: layer_stack.layers[name] of a name that is no key raises KeyError *)
raise_key_error(cd) == [cd EXCEPT !.status = "KeyError"]

(* lines 429-447: the etching layers of one target, from index k *)
RECURSIVE add_etching_layers(_, _, _, _, _, _, _)
add_etching_layers(ls, polygons_per_layer, target, polygons, etching, k, acc) ==
    IF k > Len(etching) THEN acc
    ELSE LET level == Get(ls, etching[k])
             layer == level.layer
             nxt ==
                 IF layer \in DOMAIN polygons_per_layer
                 THEN LET layer_index == get_layer(layer)
                          B_polys == polygons_per_layer[layer]
                      IN  [layer_index |-> layer_index,
                           polygons_to_remove |-> boolean_or(acc.polygons_to_remove, B_polys),
                           cd |-> IF has_derived_layer(level)
                                  THEN shapes_insert(acc.cd, "and", target, etching[k],
                                                     layer_index, boolean_and(polygons, B_polys))
                                  ELSE acc.cd]
                 ELSE skip_etching_layer(acc)
         IN  add_etching_layers(ls, polygons_per_layer, target, polygons, etching, k + 1, nxt)

(* lines 420-454: the targets of unetched_layers_dict, from index k *)
RECURSIVE define_unetched(_, _, _, _, _)
define_unetched(ls, polygons_per_layer, d, k, cd) ==
    IF k > Len(d) \/ cd.status # "ok" THEN cd
    ELSE LET unetched_layer_name == d[k].key
         IN  IF unetched_layer_name \notin StackNames(ls)
             THEN raise_key_error(cd)
             ELSE LET layer == Get(ls, unetched_layer_name).layer
                      polygons == polygons_at(polygons_per_layer, layer)
                      cd1 == insert_polygons(cd, unetched_layer_name, layer, polygons)
                      acc == add_etching_layers(ls, polygons_per_layer, unetched_layer_name,
                                 polygons, d[k].val, 1,
                                 [layer_index |-> layer, polygons_to_remove |-> {}, cd |-> cd1])
                      r == boolean_not(polygons_at(polygons_per_layer, layer),
                                       acc.polygons_to_remove)
                      cd2 == shapes_insert(acc.cd, "not", unetched_layer_name, "",
                                           acc.layer_index, r)
                  IN  define_unetched(ls, polygons_per_layer, d, k + 1, cd2)

get_component_with_derived_layers(comp, ls) ==
    LET res == remove_etched_layers(ls)
        polygons_per_layer == get_polygons(comp)
        component_layers == DOMAIN polygons_per_layer
        numbers == unetched_layer_numbers(ls, res.unetched_layers, component_layers)
        cd == define_unetched(ls, polygons_per_layer, res.unetched_layers_dict, 1,
                              extract(comp, numbers))
    IN  [status |-> cd.status,
         shapes |-> IF cd.status = "ok" THEN cd.shapes ELSE EmptyShapes,
         log    |-> IF cd.status = "ok" THEN cd.log ELSE <<>>,
         ports  |-> IF cd.status = "ok" THEN comp.ports ELSE {},
         unetched_layers |-> res.unetched_layers,
         unetched_layers_dict |-> res.unetched_layers_dict]

----------------------------------------------------------------------------
(* LayerStack.get_klayout_3d_script (layer_views is None).  The script is
   the sequence of its lines; a line is a record, its numbers kept as
   numbers and its names as structured entities. *)

Plain(layer_name) == [prefix |-> "", target |-> layer_name, etch |-> "", i |-> 0]

Unetched(layer_name) == [prefix |-> "unetched", target |-> layer_name, etch |-> "", i |-> 0]

(* slab_{layer1}_{layer_name}_{i}, i counting from 0 as enumerate does *)
Slab(layer1, layer_name, i) ==
    [prefix |-> "slab", target |-> layer1, etch |-> layer_name, i |-> i]

Blank == [kind |-> "blank"]

Pow10(n) == IF n = 0 THEN 1 ELSE IF n = 1 THEN 10 ELSE IF n = 2 THEN 100
            ELSE IF n = 3 THEN 1000 ELSE IF n = 4 THEN 10000 ELSE 100000

(* round(z, ndigits) on a fixed-point z of Prec digits: nearest, ties to even *)
round(z, ndigits) ==
    IF ndigits >= Prec THEN z
    ELSE LET q == Pow10(Prec - ndigits)
             lo == z \div q
             rem == z - lo * q
         IN  IF 2 * rem < q THEN lo * q
             ELSE IF 2 * rem > q THEN (lo + 1) * q
             ELSE IF lo % 2 = 0 THEN lo * q ELSE (lo + 1) * q

(* len(str(dbu).split(".")[-1]): the characters after the last "." of the
   repr of dbu, all of them when it has none *)
rnd_pl(dbu_repr) ==
    LET dots == {i \in 1..Len(dbu_repr) : dbu_repr[i] = "."}
        last == IF dots = {} THEN 0 ELSE CHOOSE i \in dots : \A j \in dots : j <= i
    IN  Len(dbu_repr) - last

NoDbu == <<>>

(* lines 223-229: one input declaration per level with a layer *)
input_lines(ls) ==
    LET kept == SelectSeq(ls, LAMBDA level : Truthy(level.layer))
    IN  [k \in 1..Len(kept) |->
            [kind |-> "input", name |-> kept[k].name, layer |-> kept[k].layer]]

(* seeded fault: the etch layers are subtracted in reverse order *)
unetched_definitions_reversed(d) ==
    [k \in 1..Len(d) |->
        [kind |-> "def", lhs |-> Unetched(d[k].key), op |-> "-",
         args |-> <<d[k].key>> \o [i \in 1..Len(d[k].val) |-> d[k].val[Len(d[k].val) + 1 - i]]]]

(* lines 234-236: one definition per key of unetched_layers_dict *)
unetched_definitions(d) ==
    [k \in 1..Len(d) |->
        [kind |-> "def", lhs |-> Unetched(d[k].key), op |-> "-",
         args |-> <<d[k].key>> \o d[k].val]]

(* lines 241-245: the slab definitions of the etch levels, from level k *)
RECURSIVE slab_definitions(_, _)
slab_definitions(ls, k) ==
    IF k > Len(ls) THEN <<>>
    ELSE LET level == ls[k]
             own == IF level.layer_type = "etch"
                    THEN [i \in 1..Len(level.into) |->
                            [kind |-> "def", lhs |-> Slab(level.into[i], level.name, i - 1),
                             op |-> "&amp;", args |-> <<level.into[i], level.name>>]]
                    ELSE <<>>
         IN  own \o slab_definitions(ls, k + 1)

(* lines 265-294: the slab z statements of one etch level, from into[i] *)
RECURSIVE slab_statements(_, _, _, _)
slab_statements(ls, level, i, acc) ==
    IF i > Len(level.into) \/ acc.status # "ok" THEN acc
    ELSE LET layer1 == level.into[i]
         IN  IF layer1 \notin StackNames(ls) THEN [acc EXCEPT !.status = "KeyError"]
             ELSE LET unetched_level == Get(ls, layer1)
                      unetched_zmax == unetched_level.zmin + unetched_level.thickness
                      slab_layer_name == Slab(layer1, level.name, i - 1)
                      txt == [kind |-> "z", entity |-> slab_layer_name,
                              zstart |-> unetched_level.zmin,
                              zstop |-> unetched_zmax - level.thickness,
                              label |-> [entity |-> slab_layer_name, layer |-> level.layer]]
                  IN  slab_statements(ls, level, i + 1,
                                      [acc EXCEPT !.out = Append(@, txt)])

(* lines 249-319: the z statements of the levels, from level k *)
RECURSIVE level_statements(_, _, _, _, _)
level_statements(ls, unetched, d, k, acc) ==
    IF k > Len(ls) \/ acc.status # "ok" THEN acc
    ELSE LET level == ls[k]
             layer == level.layer
             zmin == IF d # NoDbu THEN round(level.zmin, rnd_pl(d)) ELSE level.zmin
             zmax == IF d # NoDbu THEN round(level.zmin + level.thickness, rnd_pl(d))
                     ELSE level.zmin + level.thickness
             nxt == IF layer = NoLayer THEN acc
                    ELSE IF level.layer_type = "etch"
                         THEN slab_statements(ls, level, 1, acc)
                    ELSE IF InSeq(unetched, level.name)
                         THEN [acc EXCEPT !.out = Append(@,
                                 [kind |-> "z", entity |-> Plain(level.name),
                                  zstart |-> zmin, zstop |-> zmax,
                                  label |-> [entity |-> Plain(level.name), layer |-> layer]])]
                    ELSE acc
         IN  level_statements(ls, unetched, d, k + 1, nxt)

(* lines 323-351: the z statements of the unetched entities, from key k *)
RECURSIVE unetched_statements(_, _, _, _)
unetched_statements(ls, keys, k, acc) ==
    IF k > Len(keys) \/ acc.status # "ok" THEN acc
    ELSE LET layer_name == keys[k]
         IN  IF layer_name \notin StackNames(ls) THEN [acc EXCEPT !.status = "KeyError"]
             ELSE LET unetched_level == Get(ls, layer_name)
                      layer == unetched_level.layer
                      unetched_zmin == unetched_level.zmin
                      unetched_zmax == unetched_zmin + unetched_level.thickness
                  IN  IF layer = NoLayer THEN [acc EXCEPT !.status = "TypeError"]
                      ELSE unetched_statements(ls, keys, k + 1,
                             [acc EXCEPT !.out = Append(@,
                                [kind |-> "z", entity |-> Unetched(layer_name),
                                 zstart |-> unetched_zmin, zstop |-> unetched_zmax,
                                 label |-> [entity |-> Unetched(layer_name),
                                            layer |-> layer]])])

get_klayout_3d_script(ls, d) ==
    LET res == remove_etched_layers(ls)
        head == input_lines(ls) \o <<Blank>>
                \o unetched_definitions(res.unetched_layers_dict) \o <<Blank>>
                \o slab_definitions(ls, 1) \o <<Blank>>
        body == level_statements(ls, res.unetched_layers, d, 1,
                                 [status |-> "ok", out |-> head])
        tail == unetched_statements(ls, DictKeys(res.unetched_layers_dict), 1,
                    [body EXCEPT !.out = IF body.status = "ok" THEN Append(@, Blank) ELSE @])
    IN  [status |-> tail.status,
         out |-> IF tail.status = "ok" THEN tail.out ELSE <<>>,
         unetched_layers |-> res.unetched_layers,
         unetched_layers_dict |-> res.unetched_layers_dict]

----------------------------------------------------------------------------
(* Inputs *)

Targets(n) == {NameOf(i) : i \in 1..n} \cup {Dangling}

DerivedLayers == {NoLayer} \cup {NumLayerIds}

(* the levels a stack of n levels may hold; into and derived_layer are read
   for etch levels only, so the other levels carry their defaults *)
LevelBodies(n, ids, into_max, derived) ==
    {[layer |-> l, layer_type |-> t, into |-> <<>>, derived_layer |-> NoLayer] :
        l \in ids, t \in LayerTypes \ {"etch"}}
    \cup
    {[layer |-> x.l, layer_type |-> "etch", into |-> x.i, derived_layer |-> x.d] :
        x \in [l : ids, i : BoundedSeq(Targets(n), into_max), d : derived]}

(* layer ids are opaque: stacks are drawn up to a renaming of the ids, the
   ids numbered in the order of their first use *)
FirstUseOrder(b) ==
    \A i \in 1..Len(b) :
        \A l \in 1..(b[i].layer - 1) : \E j \in 1..(i - 1) : b[j].layer = l

(* every level has its own z extent, none of them a multiple of 0.001 or 0.01 *)
ZminOf(i) == (i - 2) * 1101

ThicknessOf(i) == 2204 + 703 * i

WithNames(b) ==
    [i \in 1..Len(b) |->
        [name |-> NameOf(i), layer |-> b[i].layer, layer_type |-> b[i].layer_type,
         into |-> b[i].into, derived_layer |-> b[i].derived_layer,
         zmin |-> ZminOf(i), thickness |-> ThicknessOf(i)]]

(* layers is one of the stacks of up to MaxLevels levels *)
IsStack(ls, ids, into_max, derived) ==
    \E n \in 0..MaxLevels :
        \E b \in [1..n -> LevelBodies(n, ids, into_max, derived)] :
            FirstUseOrder(b) /\ ls = WithNames(b)

Snapshots == UNION {[D -> Regions] : D \in SUBSET LayerIds}

FullSnapshot == [l \in LayerIds |-> Cells]

DbuValues == {NoDbu, <<"0", ".", "0", "0", "1">>, <<"0", ".", "0", "1">>}

DefaultDbu == <<"0", ".", "0", "0", "1">>

Idle == [status |-> "idle"]

DerivedCall ==
    /\ component_derived = Idle
    /\ component_derived' = get_component_with_derived_layers(component, layers)
    /\ UNCHANGED <<layers, component, dbu, script, calls, layer_to>>

(* dbu holds the dbu argument of the call, its default before the call *)
ScriptCall ==
    /\ script = Idle
    /\ \E d \in DbuValues :
          /\ dbu' = d
          /\ script' = get_klayout_3d_script(layers, d)
    /\ UNCHANGED <<layers, component, component_derived, calls, layer_to>>

----------------------------------------------------------------------------
(* Spec: the two calls, in either order, on every stack within the bounds (into lists of up to
   MaxInto names, dangling names and repeated names included), on a
   component with polygons on every layer *)

Init ==
    /\ IsStack(layers, {NoLayer} \cup 1..(NumLayerIds - 1), MaxInto, {NoLayer})
    /\ component = [polygons |-> FullSnapshot, ports |-> Ports]
    /\ dbu = DefaultDbu
    /\ component_derived = Idle
    /\ script = Idle
    /\ calls = <<>>
    /\ layer_to = Idle

Next == DerivedCall \/ ScriptCall

Spec == Init /\ [][Next]_vars

----------------------------------------------------------------------------
(* SpecDerived: the derived-geometry call on every snapshot within the
   bounds, for the stacks whose etch levels name at most MaxIntoDerived
   targets *)

MaxIntoDerived == 1

InitDerived ==
    /\ IsStack(layers, {NoLayer} \cup LayerIds, MaxIntoDerived, DerivedLayers)
    /\ \E p \in Snapshots : component = [polygons |-> p, ports |-> Ports]
    /\ dbu = DefaultDbu
    /\ component_derived = Idle
    /\ script = Idle
    /\ calls = <<>>
    /\ layer_to = Idle

NextDerived == DerivedCall

SpecDerived == InitDerived /\ [][NextDerived]_vars

----------------------------------------------------------------------------
(* Properties.  The expected values below are stated from the stack alone,
   independently of the loops of the two functions. *)

Count(seq, x) == Cardinality({i \in 1..Len(seq) : seq[i] = x})

Repeat(x, n) == [i \in 1..n |-> x]

IsEtchLayer(level) == level.layer_type = "etch" /\ Truthy(level.layer)

IsGrowLayer(level) == level.layer_type = "grow" /\ Truthy(level.layer)

(* the etch layers whose into names t, in stack order up to level k, each
   once per occurrence of t in its into *)
RECURSIVE ExpectedEtchers(_, _, _)
ExpectedEtchers(ls, t, k) ==
    IF k = 0 THEN <<>>
    ELSE ExpectedEtchers(ls, t, k - 1)
         \o (IF IsEtchLayer(ls[k]) THEN Repeat(ls[k].name, Count(ls[k].into, t)) ELSE <<>>)

EtchersOf(ls, t) == ExpectedEtchers(ls, t, Len(ls))

ExpectedUnetched(ls) ==
    NamesOf(SelectSeq(ls, LAMBDA level : IsGrowLayer(level) /\ EtchersOf(ls, level.name) = <<>>))

DerivedDone == component_derived # Idle

ScriptDone == script # Idle

(* C3: in both functions unetched_layers is exactly the names of the grow
   levels with a layer id, in stack order, without the names listed in the
   into of an etch level with a layer id. *)
C3_UnetchedLayers ==
    /\ DerivedDone => component_derived.unetched_layers = ExpectedUnetched(layers)
    /\ ScriptDone => script.unetched_layers = ExpectedUnetched(layers)

(* both calls made on a stack where one grow level is named by two etch
   layers and another grow level stays unetched *)
C3_Witness ==
    /\ DerivedDone /\ ScriptDone
    /\ \E x \in 1..Len(layers) :
          /\ IsGrowLayer(layers[x])
          /\ Len(EtchersOf(layers, layers[x].name)) >= 2
    /\ script.unetched_layers # <<>>
    /\ component_derived.unetched_layers # <<>>

EtchedByIs(d, ls) ==
    /\ \A i, j \in 1..Len(d) : d[i].key = d[j].key => i = j
    /\ \A t \in StackNames(ls) \cup {Dangling} :
          IF EtchersOf(ls, t) = <<>> THEN ~HasKey(d, t)
          ELSE HasKey(d, t) /\ DictGet(d, t) = EtchersOf(ls, t)
    /\ \A i \in 1..Len(d) : d[i].key \in StackNames(ls) \cup {Dangling}

(* C4: in both functions etched_by (unetched_layers_dict) maps every name
   listed in the into of an etch layer to the etch layers that list it, in
   stack order, one entry per listing; a name no etch layer lists has no
   entry, so an etch layer with an empty into adds none. *)
C4_EtchedBy ==
    /\ DerivedDone => EtchedByIs(component_derived.unetched_layers_dict, layers)
    /\ ScriptDone => EtchedByIs(script.unetched_layers_dict, layers)

(* both calls made on a stack where two different etch layers list the same
   grow level *)
C4_Witness ==
    /\ DerivedDone /\ ScriptDone
    /\ \E x, e1, e2 \in 1..Len(layers) :
          /\ e1 < e2
          /\ IsGrowLayer(layers[x])
          /\ IsEtchLayer(layers[e1]) /\ IsEtchLayer(layers[e2])
          /\ InSeq(layers[e1].into, layers[x].name)
          /\ layers[e2].into = <<layers[x].name>>
          /\ DictGet(script.unetched_layers_dict, layers[x].name)
                = <<layers[e1].name, layers[e2].name>>
          /\ DictGet(component_derived.unetched_layers_dict, layers[x].name)
                = <<layers[e1].name, layers[e2].name>>

----------------------------------------------------------------------------
(* Properties of get_component_with_derived_layers, under SpecDerived *)

DerivedOk == DerivedDone /\ component_derived.status = "ok"

Snapshot == component.polygons

(* the levels that are etch layers listing the name t *)
EtchLevelsOf(ls, t) == {e \in 1..Len(ls) : IsEtchLayer(ls[e]) /\ InSeq(ls[e].into, t)}

(* the union of the snapshot regions of the etch layers listing t *)
EtchRegion(ls, t) ==
    UNION {polygons_at(Snapshot, ls[e].layer) : e \in EtchLevelsOf(ls, t)}

Residual(ls, x) == polygons_at(Snapshot, ls[x].layer) \ EtchRegion(ls, ls[x].name)

LogEntries(op, target) ==
    SelectSeq(component_derived.log, LAMBDA entry : entry.op = op /\ entry.target = target)

Covered(layer) == {c \in Cells : component_derived.shapes[layer][c] > 0}

(* a grow layer listed by an etch layer, whose layer id no other level has *)
IsEtchedGrow(ls, x) ==
    /\ IsGrowLayer(ls[x])
    /\ EtchLevelsOf(ls, ls[x].name) # {}
    /\ \A y \in 1..Len(ls) : y # x => ls[y].layer # ls[x].layer

(* C1: when the call returns, the cells covered in the output under the
   layer id of every etched grow layer X are exactly X's polygons minus the
   union of the polygons of its etch layers: the residual is there and X's
   polygons from before the etch are not. *)
C1_ResidualUnderOwnId ==
    DerivedOk =>
        \A x \in 1..Len(layers) :
            IsEtchedGrow(layers, x) =>
                Covered(layers[x].layer) = Residual(layers, x)

(* every name listed by an etch layer is a level with a layer id *)
TargetsResolve(ls) ==
    \A e \in 1..Len(ls) :
        IsEtchLayer(ls[e]) =>
            \A k \in 1..Len(ls[e].into) :
                /\ ls[e].into[k] \in StackNames(ls)
                /\ Truthy(Get(ls, ls[e].into[k]).layer)

(* C2: when every listed target is a level with a layer id, the call
   returns whatever ids the snapshot lacks; each target's residual is the
   target's snapshot region (empty when the snapshot lacks its id) minus the
   regions of those of its etch layers the snapshot holds, and no slab is
   inserted for an etch layer the snapshot lacks. *)
C2_AbsentLayerSkipped ==
    (DerivedDone /\ TargetsResolve(layers)) =>
        /\ component_derived.status = "ok"
        /\ \A x \in 1..Len(layers) :
              EtchLevelsOf(layers, layers[x].name) # {} =>
                  /\ Len(LogEntries("not", layers[x].name)) = 1
                  /\ LogEntries("not", layers[x].name)[1].region = Residual(layers, x)
        /\ \A k \in 1..Len(component_derived.log) :
              component_derived.log[k].op = "and" =>
                  Get(layers, component_derived.log[k].etch).layer \in DOMAIN Snapshot

(* a grow layer whose id the snapshot lacks, with two etch layers declaring
   a derived_layer: the snapshot lacks the id of the first and holds
   polygons of the second; the call returns, with a slab for the second only *)
C2_Witness ==
    /\ DerivedOk
    /\ \E x, e1, e2 \in 1..Len(layers) :
          /\ e1 < e2
          /\ IsGrowLayer(layers[x])
          /\ {e1, e2} \subseteq EtchLevelsOf(layers, layers[x].name)
          /\ Truthy(layers[e1].derived_layer) /\ Truthy(layers[e2].derived_layer)
          /\ layers[x].layer \notin DOMAIN Snapshot
          /\ layers[e1].layer \notin DOMAIN Snapshot
          /\ layers[e2].layer \in DOMAIN Snapshot
          /\ Snapshot[layers[e2].layer] # {}
          /\ \E k \in 1..Len(component_derived.log) :
                /\ component_derived.log[k].op = "and"
                /\ component_derived.log[k].etch = layers[e2].name

SlabRegion(ls, x, e) ==
    boolean_and(polygons_at(Snapshot, ls[x].layer), polygons_at(Snapshot, ls[e].layer))

SlabEntries(target, etch) ==
    SelectSeq(component_derived.log, LAMBDA entry :
        entry.op = "and" /\ entry.target = target /\ entry.etch = etch)

(* C5: when the call returns, every slab insertion is the AND of a target's
   region and the region of an etch layer that lists it and declares a
   derived_layer, made under that etch layer's own id; every such pair with a
   non-empty AND has one insertion per listing, and an etch layer without a
   derived_layer has none. *)
C5_SlabUnderEtchId ==
    DerivedOk =>
        /\ \A k \in 1..Len(component_derived.log) :
              LET entry == component_derived.log[k]
              IN  entry.op = "and" =>
                    /\ entry.etch \in StackNames(layers)
                    /\ entry.target \in StackNames(layers)
                    /\ LET e == IndexOf(layers, entry.etch)
                           x == IndexOf(layers, entry.target)
                       IN  /\ e \in EtchLevelsOf(layers, entry.target)
                           /\ Truthy(layers[e].derived_layer)
                           /\ entry.layer = layers[e].layer
                           /\ entry.region = SlabRegion(layers, x, e)
        /\ \A x, e \in 1..Len(layers) :
              (e \in EtchLevelsOf(layers, layers[x].name)
                 /\ Truthy(layers[e].derived_layer)
                 /\ SlabRegion(layers, x, e) # {}) =>
                    Len(SlabEntries(layers[x].name, layers[e].name))
                        = Count(layers[e].into, layers[x].name)

(* a target with two etch layers holding polygons over it, one declaring a
   derived_layer and one not: one slab, under the first one's id *)
C5_Witness ==
    /\ DerivedOk
    /\ \E x, e1, e2 \in 1..Len(layers) :
          /\ e1 # e2
          /\ IsGrowLayer(layers[x])
          /\ {e1, e2} \subseteq EtchLevelsOf(layers, layers[x].name)
          /\ Truthy(layers[e1].derived_layer) /\ ~Truthy(layers[e2].derived_layer)
          /\ layers[e1].layer # layers[e2].layer
          /\ SlabRegion(layers, x, e1) # {} /\ SlabRegion(layers, x, e2) # {}
          /\ Len(SlabEntries(layers[x].name, layers[e1].name)) = 1
          /\ SlabEntries(layers[x].name, layers[e2].name) = <<>>

NoEtchLevels(ls) == \A i \in 1..Len(ls) : ls[i].layer_type # "etch"

GrowNames(ls) == NamesOf(SelectSeq(ls, LAMBDA level : IsGrowLayer(level)))

GrowIds(ls) == {ls[i].layer : i \in {j \in 1..Len(ls) : IsGrowLayer(ls[j])}}

PolygonCount(layer, c) == IF c \in polygons_at(Snapshot, layer) THEN 1 ELSE 0

(* C6 as stated: without etch-type levels unetched_layers is every grow
   layer and the returned polygons equal the input polygons on every layer. *)
C6_IdentityEveryLayer ==
    (DerivedDone /\ NoEtchLevels(layers)) =>
        /\ component_derived.status = "ok"
        /\ component_derived.unetched_layers = GrowNames(layers)
        /\ \A l \in LayerIds : \A c \in Cells :
              component_derived.shapes[l][c] = PolygonCount(l, c)

(* C6 as amended: without etch-type levels unetched_layers is every grow
   layer, and the returned polygons equal the input polygons on the layer
   ids of the grow layers; no other layer has polygons in the output. *)
C6_IdentityOnGrowLayers ==
    (DerivedDone /\ NoEtchLevels(layers)) =>
        /\ component_derived.status = "ok"
        /\ component_derived.unetched_layers = GrowNames(layers)
        /\ \A l \in LayerIds : \A c \in Cells :
              component_derived.shapes[l][c]
                 = IF l \in GrowIds(layers) THEN PolygonCount(l, c) ELSE 0

(* no etch-type level, two grow layers with polygons, and a layer with
   polygons that is no grow layer of the stack *)
C6_Witness ==
    /\ DerivedOk /\ NoEtchLevels(layers)
    /\ Cardinality({l \in GrowIds(layers) : polygons_at(Snapshot, l) # {}}) >= 2
    /\ \E l \in LayerIds \ GrowIds(layers) : polygons_at(Snapshot, l) # {}

ListsDangling(ls) ==
    \E e \in 1..Len(ls) : IsEtchLayer(ls[e]) /\ InSeq(ls[e].into, Dangling)

(* C7: a name that an etch layer lists and that is no key of the stack is a
   key of etched_by, and the call returns no component; it fails with the
   KeyError of the stack lookup whenever every listed level has a layer id. *)
C7_DanglingTargetFails ==
    (DerivedDone /\ ListsDangling(layers)) =>
        /\ HasKey(component_derived.unetched_layers_dict, Dangling)
        /\ component_derived.status \in {"KeyError", "TypeError"}
        /\ (\A e \in 1..Len(layers) : IsEtchLayer(layers[e]) =>
               \A k \in 1..Len(layers[e].into) :
                   layers[e].into[k] \in StackNames(layers) =>
                       Truthy(Get(layers, layers[e].into[k]).layer))
              => component_derived.status = "KeyError"

(* an etch layer lists the dangling name after another etch layer has
   etched a grow layer with polygons: the call fails with KeyError *)
C7_Witness ==
    /\ DerivedDone /\ ListsDangling(layers)
    /\ component_derived.status = "KeyError"
    /\ \E x, e \in 1..Len(layers) :
          /\ IsGrowLayer(layers[x])
          /\ e \in EtchLevelsOf(layers, layers[x].name)
          /\ Residual(layers, x) # polygons_at(Snapshot, layers[x].layer)

----------------------------------------------------------------------------
(* Properties of get_klayout_3d_script, under Spec *)

ScriptOk == ScriptDone /\ script.status = "ok"

Lines(kind) == SelectSeq(script.out, LAMBDA ln : ln.kind = kind)

DefinitionsOf(entity) == SelectSeq(Lines("def"), LAMBDA ln : ln.lhs = entity)

StatementsOf(entity) == SelectSeq(Lines("z"), LAMBDA ln : ln.entity = entity)

(* the entities of a level: its plain name, its unetched entity, its slabs *)
IsEntityOf(entity, layer_name) ==
    \/ entity = Plain(layer_name)
    \/ entity = Unetched(layer_name)
    \/ entity.prefix = "slab" /\ entity.etch = layer_name

(* C8: on a stack whose etch layers list only names of the stack, the call
   returns a script, and a level without a layer id has no input
   declaration, no definition line and no z statement in it. *)
C8_LevelWithoutIdSkipped ==
    (ScriptDone /\ ~ListsDangling(layers)) =>
        /\ script.status = "ok"
        /\ \A i \in 1..Len(layers) :
              ~Truthy(layers[i].layer) =>
                  /\ \A k \in 1..Len(Lines("input")) :
                        Lines("input")[k].name # layers[i].name
                  /\ \A k \in 1..Len(Lines("def")) :
                        ~IsEntityOf(Lines("def")[k].lhs, layers[i].name)
                  /\ \A k \in 1..Len(Lines("z")) :
                        ~IsEntityOf(Lines("z")[k].entity, layers[i].name)

(* C9: in the script, every grow level X listed by etch layers has exactly
   one definition of unetched_X, subtracting from X its etch layers in stack
   order, exactly one z statement of unetched_X, from X's zmin to X's
   zmin + thickness, and no z statement under the name X. *)
C9_UnetchedEntity ==
    ScriptOk =>
        \A x \in 1..Len(layers) :
            (layers[x].layer_type = "grow" /\ EtchersOf(layers, layers[x].name) # <<>>) =>
                LET X == layers[x].name
                IN  /\ Len(DefinitionsOf(Unetched(X))) = 1
                    /\ DefinitionsOf(Unetched(X))[1].op = "-"
                    /\ DefinitionsOf(Unetched(X))[1].args = <<X>> \o EtchersOf(layers, X)
                    /\ Len(StatementsOf(Unetched(X))) = 1
                    /\ StatementsOf(Unetched(X))[1].zstart = layers[x].zmin
                    /\ StatementsOf(Unetched(X))[1].zstop = layers[x].zmin + layers[x].thickness
                    /\ StatementsOf(Plain(X)) = <<>>

(* a script for a stack where a grow level is listed by two different etch
   layers *)
C9_Witness ==
    /\ ScriptOk
    /\ \E x, e1, e2 \in 1..Len(layers) :
          /\ e1 < e2
          /\ layers[x].layer_type = "grow"
          /\ EtchersOf(layers, layers[x].name) = <<layers[e1].name, layers[e2].name>>
          /\ Len(StatementsOf(Unetched(layers[x].name))) = 1
          /\ StatementsOf(Unetched(layers[x].name))[1].zstop
                # layers[x].zmin + layers[x].thickness - layers[e1].thickness

(* C10: with a dbu, the zstart and the zstop of every z statement of the
   script are rounded to the decimal digits of the dbu. *)
C10_EveryStatementRounded ==
    (ScriptOk /\ dbu # NoDbu) =>
        \A k \in 1..Len(Lines("z")) :
            /\ Lines("z")[k].zstart = round(Lines("z")[k].zstart, rnd_pl(dbu))
            /\ Lines("z")[k].zstop = round(Lines("z")[k].zstop, rnd_pl(dbu))

----------------------------------------------------------------------------
(* LayerStack.get_layer_to_thickness, get_layer_to_zmin,
   get_layer_to_material, get_layer_to_sidewall_angle.  A returned dict is a
   function from its keys (None, that is NoLayer, possibly one of them) to
   its values; a later assignment to a key replaces the earlier one. *)

EmptyDict == <<>>

dict_set(d, k, v) == (k :> v) @@ d

(* truth value of a float: 0.0 is false, every other number true *)
TruthyNumber(x) == x # 0

(* a LayerLevel has no attribute `operator` *)
has_operator(level) == FALSE

RECURSIVE layer_to_thickness_upto(_, _)
layer_to_thickness_upto(ls, k) ==
    IF k = 0 THEN EmptyDict
    ELSE LET d == layer_to_thickness_upto(ls, k - 1)
             level == ls[k]
             layer == level.layer
         IN  IF Truthy(layer) /\ TruthyNumber(level.thickness)
             THEN dict_set(d, layer, level.thickness)
             ELSE IF has_operator(level)
             THEN dict_set(d, level.layer, level.thickness)
             ELSE d

get_layer_to_thickness(ls) == layer_to_thickness_upto(ls, Len(ls))

(* {level.layer: level.<field> for level in layers.values() if level.thickness} *)
RECURSIVE layer_to_field_upto(_, _, _)
layer_to_field_upto(ls, field, k) ==
    IF k = 0 THEN EmptyDict
    ELSE LET d == layer_to_field_upto(ls, field, k - 1)
             level == ls[k]
         IN  IF TruthyNumber(level.thickness)
             THEN dict_set(d, level.layer, level[field])
             ELSE d

get_layer_to_zmin(ls) == layer_to_field_upto(ls, "zmin", Len(ls))

get_layer_to_material(ls) == layer_to_field_upto(ls, "material", Len(ls))

get_layer_to_sidewall_angle(ls) == layer_to_field_upto(ls, "sidewall_angle", Len(ls))

----------------------------------------------------------------------------
(* Floats.  zmin and dz are Python floats: a sum is rounded to the nearest
   float, ties to the even mantissa.  A float is written as an integer, in
   units of the smallest step; the floats are the numbers m * 2^e with
   |m| < 2^MantBits and e >= 0. *)

MantBits == 3

Abs(x) == IF x < 0 THEN -x ELSE x

(* the step between neighbouring floats at magnitude a *)
RECURSIVE Step(_, _)
Step(a, q) == IF a < (2 ^ MantBits) * q THEN q ELSE Step(a, 2 * q)

(* the float nearest to the number x *)
RoundToFloat(x) ==
    LET a == Abs(x)
        q == Step(a, 1)
        lo == (a \div q) * q
        rem == a - lo
        nearest == IF 2 * rem > q \/ (2 * rem = q /\ (lo \div q) % 2 = 1)
                   THEN lo + q ELSE lo
    IN  IF x < 0 THEN -nearest ELSE nearest

IsFloat(x) == RoundToFloat(x) = x

float_add(x, y) == RoundToFloat(x + y)

(* x * -1 is exact *)
float_mul_minus_one(x) == -x

----------------------------------------------------------------------------
(* LayerStack.z_offset and LayerStack.invert_zaxis.  The loops visit the
   values of the dict in order and update the LayerLevel object found there
   in place: every name that holds the object sees the update. *)

Self == "self"

(* seeded fault: layer.zmin = dz *)
zmin_assign(level, dz) == [level EXCEPT !.zmin = dz]

(* layer.zmin += dz *)
zmin_add(level, dz) == [level EXCEPT !.zmin = float_add(@, dz)]

(* layer.zmin *= -1 *)
zmin_negate(level) == [level EXCEPT !.zmin = float_mul_minus_one(@)]

RECURSIVE z_offset_upto(_, _, _)
z_offset_upto(ls, dz, k) ==
    IF k = 0 THEN ls
    ELSE LET prev == z_offset_upto(ls, dz, k - 1)
         IN  [j \in 1..Len(ls) |->
                 IF prev[j].obj = prev[k].obj THEN zmin_add(prev[j], dz) ELSE prev[j]]

z_offset(ls, dz) == [layers |-> z_offset_upto(ls, dz, Len(ls)), ret |-> Self]

RECURSIVE invert_zaxis_upto(_, _)
invert_zaxis_upto(ls, k) ==
    IF k = 0 THEN ls
    ELSE LET prev == invert_zaxis_upto(ls, k - 1)
         IN  [j \in 1..Len(ls) |->
                 IF prev[j].obj = prev[k].obj THEN zmin_negate(prev[j]) ELSE prev[j]]

invert_zaxis(ls) == [layers |-> invert_zaxis_upto(ls, Len(ls)), ret |-> Self]

----------------------------------------------------------------------------
(* SpecLevels: the get_layer_to_* maps read at any moment, and up to
   MaxCalls calls of z_offset and invert_zaxis, on every stack of up to
   MaxStackLevels levels: levels without a layer id, levels of thickness 0,
   two levels on one layer id and one LayerLevel object under two names
   included *)

MaxStackLevels == 2
MaxCalls == 2

NoMaterial == "None"

ThicknessValues == {0, 3}

ZminValues == {-3, 0, 1}

(* small steps, and steps large enough for a sum to need rounding *)
DzValues == {1, -1, 2 ^ MantBits, -(2 ^ MantBits)}

(* the fields that neither the maps nor the z calls compute with *)
Profiles ==
    {[material |-> "si", sidewall_angle |-> 0, layer_type |-> "grow"],
     [material |-> NoMaterial, sidewall_angle |-> 10, layer_type |-> "etch"]}

LevelObjects ==
    {[layer |-> l, thickness |-> t, zmin |-> z, material |-> p.material,
      sidewall_angle |-> p.sidewall_angle, layer_type |-> p.layer_type,
      into |-> <<>>, derived_layer |-> NoLayer] :
        l \in {NoLayer} \cup 1..(NumLayerIds - 1), t \in ThicknessValues,
        z \in ZminValues, p \in Profiles}

(* objects are numbered in the order of their first name *)
ObjectsInOrder(o) ==
    \A i \in DOMAIN o : o[i] <= i /\ \A x \in 1..(o[i] - 1) : \E j \in 1..(i - 1) : o[j] = x

Named(o, b) ==
    [i \in DOMAIN o |->
        [name |-> NameOf(i), obj |-> o[i], layer |-> b[o[i]].layer,
         layer_type |-> b[o[i]].layer_type, into |-> b[o[i]].into,
         derived_layer |-> b[o[i]].derived_layer, zmin |-> b[o[i]].zmin,
         thickness |-> b[o[i]].thickness, material |-> b[o[i]].material,
         sidewall_angle |-> b[o[i]].sidewall_angle]]

IsLevelStack(ls) ==
    \E n \in 0..MaxStackLevels :
        \E o \in [1..n -> 1..n] :
            /\ ObjectsInOrder(o)
            /\ \E b \in [1..n -> LevelObjects] : ls = Named(o, b)

LayerToCall ==
    /\ layer_to = Idle
    /\ layer_to' = [status |-> "ok", self |-> layers,
                    thickness |-> get_layer_to_thickness(layers),
                    zmin |-> get_layer_to_zmin(layers),
                    material |-> get_layer_to_material(layers),
                    sidewall_angle |-> get_layer_to_sidewall_angle(layers)]
    /\ UNCHANGED <<layers, component, dbu, component_derived, script, calls>>

ZOffsetCall ==
    /\ Len(calls) < MaxCalls
    /\ \E dz \in DzValues :
          LET r == z_offset(layers, dz)
          IN  /\ layers' = r.layers
              /\ calls' = Append(calls, [op |-> "z_offset", dz |-> dz,
                                         self |-> layers, ret |-> r.ret])
    /\ UNCHANGED <<component, dbu, component_derived, script, layer_to>>

InvertZaxisCall ==
    /\ Len(calls) < MaxCalls
    /\ LET r == invert_zaxis(layers)
       IN  /\ layers' = r.layers
           /\ calls' = Append(calls, [op |-> "invert_zaxis", dz |-> 0,
                                      self |-> layers, ret |-> r.ret])
    /\ UNCHANGED <<component, dbu, component_derived, script, layer_to>>

InitLevels ==
    /\ IsLevelStack(layers)
    /\ component = [polygons |-> FullSnapshot, ports |-> Ports]
    /\ dbu = DefaultDbu
    /\ component_derived = Idle
    /\ script = Idle
    /\ calls = <<>>
    /\ layer_to = Idle

NextLevels == LayerToCall \/ ZOffsetCall \/ InvertZaxisCall

SpecLevels == InitLevels /\ [][NextLevels]_vars

----------------------------------------------------------------------------
(* Properties of the get_layer_to_* maps *)

LayerToDone == layer_to # Idle

(* the levels of nonzero thickness *)
WithThickness(ls) == {i \in 1..Len(ls) : ls[i].thickness # 0}

(* d maps exactly the layer ids of the levels of nonzero thickness, each to
   the field of such a level on that id *)
MapsThickLevels(d, ls, field) ==
    /\ DOMAIN d = {ls[i].layer : i \in WithThickness(ls)}
    /\ \A k \in DOMAIN d : \E i \in WithThickness(ls) : ls[i].layer = k /\ d[k] = ls[i][field]

(* C11: the four maps get_layer_to_thickness, get_layer_to_zmin,
   get_layer_to_material and get_layer_to_sidewall_angle have the same key
   set, the layer ids of the levels with a nonzero thickness, each key
   mapped to the corresponding field of such a level. *)
C11_SameFilter ==
    LayerToDone =>
        /\ MapsThickLevels(layer_to.thickness, layer_to.self, "thickness")
        /\ MapsThickLevels(layer_to.zmin, layer_to.self, "zmin")
        /\ MapsThickLevels(layer_to.material, layer_to.self, "material")
        /\ MapsThickLevels(layer_to.sidewall_angle, layer_to.self, "sidewall_angle")

----------------------------------------------------------------------------
(* Properties of z_offset and invert_zaxis *)

(* the stack before the first call *)
Original == calls[1].self

(* the stack after the k-th call *)
After(k) == IF k < Len(calls) THEN calls[k + 1].self ELSE layers

SameZmin(ls1, ls2) ==
    Len(ls1) = Len(ls2) /\ \A i \in 1..Len(ls1) : ls1[i].zmin = ls2[i].zmin

(* the same names in the same order, every field but zmin as before *)
OnlyZminChanged(before, after) ==
    /\ Len(after) = Len(before)
    /\ \A i \in 1..Len(before) : [after[i] EXCEPT !.zmin = before[i].zmin] = before[i]

(* z_offset(dz) followed by z_offset(-dz) *)
OffsetAndBack ==
    /\ Len(calls) = 2
    /\ calls[1].op = "z_offset" /\ calls[2].op = "z_offset"
    /\ calls[2].dz = -calls[1].dz

InvertedTwice ==
    /\ Len(calls) = 2
    /\ calls[1].op = "invert_zaxis" /\ calls[2].op = "invert_zaxis"

(* the number of names that hold the object of level i *)
NamesHolding(ls, i) == Cardinality({j \in 1..Len(ls) : ls[j].obj = ls[i].obj})

(* no sum computed by z_offset(dz) on ls needs rounding *)
ExactOffset(ls, dz) ==
    \A i \in 1..Len(ls) : \A m \in 1..NamesHolding(ls, i) : IsFloat(ls[i].zmin + m * dz)

EachCallChangesOnlyZmin ==
    \A k \in 1..Len(calls) :
        OnlyZminChanged(calls[k].self, After(k)) /\ calls[k].ret = Self

(* C12 as stated: z_offset(dz) followed by z_offset(-dz) restores the zmin
   of every level, invert_zaxis() applied twice restores the zmin of every
   level, and each of these calls changes only zmin and returns the same
   stack object. *)
C12_RoundTrips ==
    /\ OffsetAndBack => SameZmin(layers, Original)
    /\ InvertedTwice => SameZmin(layers, Original)
    /\ EachCallChangesOnlyZmin

(* C12 amended: z_offset(dz) followed by z_offset(-dz) restores the zmin of
   every level when no sum of the first call needs rounding; invert_zaxis()
   applied twice restores the zmin of every level; each of these calls
   changes only zmin and returns the same stack object. *)
C12_RoundTripsWhenExact ==
    /\ (OffsetAndBack /\ ExactOffset(Original, calls[1].dz)) => SameZmin(layers, Original)
    /\ InvertedTwice => SameZmin(layers, Original)
    /\ EachCallChangesOnlyZmin

(* z_offset(dz) moved the two levels of a stack without rounding, and
   z_offset(-dz) brought them back *)
C12_Witness ==
    /\ OffsetAndBack
    /\ Len(layers) = 2
    /\ ExactOffset(Original, calls[1].dz)
    /\ \A i \in 1..2 : calls[2].self[i].zmin # Original[i].zmin
    /\ SameZmin(layers, Original)

====
